---- MODULE Spec2Model ----
(***************************************************************************)
(* Model of the two client scripts of kulyk-rust that exercise the         *)
(* translation service at http://127.0.0.1:3000/translate:                 *)
(*   testing.py           two hard-coded sentence lists, printed responses *)
(*   testing_highload.py  a dataset pass that times every round trip and   *)
(*                        prints the average                               *)
(* One behaviour of the model is one execution of one of the two scripts.  *)
(* The translation service and the dataset provider are the environment:   *)
(* the dataset content, and every reply of the service (exception, status, *)
(* body, duration), are nondeterministic.                                  *)
(***************************************************************************)
EXTENDS Integers, Sequences, FiniteSets

\* ---- bounds of the model ----
MaxRows == 3        \* longest dataset read by read_csv
NumSentences == 2   \* distinct sentences a dataset row can hold
MaxDelay == 2       \* longest simulated round trip, in clock ticks

VARIABLES
  script,    \* which script runs: "testing" or "testing_highload"
  pc,        \* position of the interpreter in the script
  df,        \* testing_highload.py: the data frame (sequence of sentences)
  i,         \* number of items the current for loop has taken
  row,       \* testing_highload.py: loop variable (its "sentence" field)
  sent,      \* testing.py: loop variable
  s0,        \* testing_highload.py: time.time() taken before the call
  clock,     \* wall clock read by time.time()
  requests,  \* requests received by the endpoint, in order of arrival
  inflight,  \* indices of requests posted and not yet answered
  resp,      \* outcome of the most recent requests.post
  data,      \* result of the most recent resp.json()
  elapsed,   \* testing_highload.py: local of call
  times,     \* testing_highload.py: the list of elapsed values
  stdout,    \* lines printed by call / call_back
  averages,  \* "Average:" lines printed by testing_highload.py
  exc        \* exception that ended the script, "None" when there is none

vars == <<script, pc, df, i, row, sent, s0, clock, requests, inflight, resp,
          data, elapsed, times, stdout, averages, exc>>

\* ---- data ----
Sentence(lang, n) == [lang |-> lang, idx |-> n]

\* rows of hf://datasets/speech-uk/text-to-speech-sentences
Sentences == {Sentence("uk", n) : n \in 1..NumSentences}

Datasets == UNION {[1..n -> Sentences] : n \in 0..MaxRows}

sentences_ukrainian == [n \in 1..10 |-> Sentence("uk", n)]

sentences_english == [n \in 1..10 |-> Sentence("en", n)]

Delays == 1..MaxDelay

StatusCodes == {200, 500}

NoResp == [raised |-> FALSE, status |-> 0, json |-> FALSE, delay |-> 0]

NoSentence == Sentence("none", 0)

NoData == [translated |-> NoSentence]

\* the replies the endpoint can give to one request
Replies ==
  {[raised |-> TRUE, status |-> 0, json |-> FALSE, delay |-> d] : d \in Delays}
  \cup
  {[raised |-> FALSE, status |-> s, json |-> j, delay |-> d] :
     s \in StatusCodes, j \in BOOLEAN, d \in Delays}

TranslationRequest(text, source_lang, target_lang) ==
  [text |-> text, source_lang |-> source_lang, target_lang |-> target_lang]

RECURSIVE sum(_)
sum(s) == IF s = <<>> THEN 0 ELSE Head(s) + sum(Tail(s))

Init ==
  /\ script \in {"testing", "testing_highload"}
  /\ pc = IF script = "testing" THEN "for_uk" ELSE "read_csv"
  /\ df = <<>>
  /\ i = 0
  /\ row = NoSentence
  /\ sent = NoSentence
  /\ s0 = 0
  /\ clock = 0
  /\ requests = <<>>
  /\ inflight = {}
  /\ resp = NoResp
  /\ data = NoData
  /\ elapsed = 0
  /\ times = <<>>
  /\ stdout = <<>>
  /\ averages = <<>>
  /\ exc = "None"

\* ---- the endpoint and requests.post ----

\* requests.post(addr, json=...) leaves the client
Send(req, next) ==
  /\ requests' = Append(requests, req)
  /\ inflight' = inflight \cup {Len(requests) + 1}
  /\ pc' = next

AfterPost(p) ==
  CASE p = "wait" -> "json"
    [] p = "call_wait" -> "call_print"
    [] p = "cb_wait" -> "cb_print"

\* where the enclosing loop resumes, for the mutant below
LoopOf(p) ==
  CASE p = "wait" -> "for"
    [] p = "call_wait" -> "for_uk"
    [] p = "cb_wait" -> "for_en"

\* mutant: the loop catches the transport error and goes on
Respond_swallow ==
  /\ pc \in {"wait", "call_wait", "cb_wait"}
  /\ \E r \in Replies :
       /\ resp' = r
       /\ clock' = clock + r.delay
       /\ inflight' = {}
       /\ IF r.raised
            THEN /\ exc' = "ConnectionError"
                 /\ pc' = LoopOf(pc)
            ELSE /\ exc' = exc
                 /\ pc' = AfterPost(pc)
  /\ UNCHANGED <<script, df, i, row, sent, s0, requests, data, elapsed,
                 times, stdout, averages>>

\* requests.post blocks until the endpoint answers or the transport raises
Respond ==
  /\ pc \in {"wait", "call_wait", "cb_wait"}
  /\ \E r \in Replies :
       /\ resp' = r
       /\ clock' = clock + r.delay
       /\ inflight' = {}
       /\ IF r.raised
            THEN /\ exc' = "ConnectionError"
                 /\ pc' = "failed"
            ELSE /\ exc' = exc
                 /\ pc' = AfterPost(pc)
  /\ UNCHANGED <<script, df, i, row, sent, s0, requests, data, elapsed,
                 times, stdout, averages>>

\* the body the service returns for the request it last received
Body == [translated |-> requests[Len(requests)].text]

\* ---- testing_highload.py ----

ReadCsv ==
  /\ pc = "read_csv"
  /\ \/ /\ \E d \in Datasets : df' = d
        /\ pc' = "for"
        /\ exc' = exc
     \/ /\ df' = df
        /\ pc' = "failed"
        /\ exc' = "DataUnavailable"
  /\ UNCHANGED <<script, i, row, sent, s0, clock, requests, inflight, resp,
                 data, elapsed, times, stdout, averages>>

\* mutant: the rows are taken from the end of the frame
HighloadFor_reversed ==
  /\ pc = "for"
  /\ IF i < Len(df)
       THEN /\ i' = i + 1
            /\ row' = df[Len(df) - i]
            /\ pc' = "s0"
       ELSE /\ pc' = "average"
            /\ UNCHANGED <<i, row>>
  /\ UNCHANGED <<script, df, sent, s0, clock, requests, inflight, resp, data,
                 elapsed, times, stdout, averages, exc>>

HighloadFor ==
  /\ pc = "for"
  /\ IF i < Len(df)
       THEN /\ i' = i + 1
            /\ row' = df[i + 1]
            /\ pc' = "s0"
       ELSE /\ pc' = "average"
            /\ UNCHANGED <<i, row>>
  /\ UNCHANGED <<script, df, sent, s0, clock, requests, inflight, resp, data,
                 elapsed, times, stdout, averages, exc>>

StartTimer ==
  /\ pc = "s0"
  /\ s0' = clock
  /\ pc' = "post"
  /\ UNCHANGED <<script, df, i, row, sent, clock, requests, inflight, resp,
                 data, elapsed, times, stdout, averages, exc>>

\* mutant: the request is dispatched without waiting for its response
HighloadPost_async ==
  /\ pc = "post"
  /\ Send(TranslationRequest(row, "uk", "en"), "for")
  /\ UNCHANGED <<script, df, i, row, sent, s0, clock, resp, data, elapsed,
                 times, stdout, averages, exc>>

HighloadPost ==
  /\ pc = "post"
  /\ Send(TranslationRequest(row, "uk", "en"), "wait")
  /\ UNCHANGED <<script, df, i, row, sent, s0, clock, resp, data, elapsed,
                 times, stdout, averages, exc>>

\* mutant: an unparseable body is skipped and the loop goes on
HighloadJson_skip ==
  /\ pc = "json"
  /\ IF resp.json
       THEN /\ data' = Body
            /\ pc' = "elapsed"
            /\ exc' = exc
       ELSE /\ data' = data
            /\ pc' = "for"
            /\ exc' = "JSONDecodeError"
  /\ UNCHANGED <<script, df, i, row, sent, s0, clock, requests, inflight,
                 resp, elapsed, times, stdout, averages>>

HighloadJson ==
  /\ pc = "json"
  /\ IF resp.json
       THEN /\ data' = Body
            /\ pc' = "elapsed"
            /\ exc' = exc
       ELSE /\ data' = data
            /\ pc' = "failed"
            /\ exc' = "JSONDecodeError"
  /\ UNCHANGED <<script, df, i, row, sent, s0, clock, requests, inflight,
                 resp, elapsed, times, stdout, averages>>

Elapsed ==
  /\ pc = "elapsed"
  /\ elapsed' = clock - s0
  /\ pc' = "print"
  /\ UNCHANGED <<script, df, i, row, sent, s0, clock, requests, inflight,
                 resp, data, times, stdout, averages, exc>>

HighloadPrint ==
  /\ pc = "print"
  /\ stdout' = Append(stdout, [elapsed |-> elapsed, data |-> data])
  /\ pc' = "append"
  /\ UNCHANGED <<script, df, i, row, sent, s0, clock, requests, inflight,
                 resp, data, elapsed, times, averages, exc>>

\* mutant: the list is overwritten instead of extended
TimesAppend_overwrite ==
  /\ pc = "append"
  /\ times' = <<elapsed>>
  /\ pc' = "for"
  /\ UNCHANGED <<script, df, i, row, sent, s0, clock, requests, inflight,
                 resp, data, elapsed, stdout, averages, exc>>

TimesAppend ==
  /\ pc = "append"
  /\ times' = Append(times, elapsed)
  /\ pc' = "for"
  /\ UNCHANGED <<script, df, i, row, sent, s0, clock, requests, inflight,
                 resp, data, elapsed, stdout, averages, exc>>

\* the quotient sum(times) / len(times), kept as an exact fraction
Mean(ts) == [num |-> sum(ts), den |-> Len(ts)]

\* mutant: only the last elapsed value is averaged
Average_last ==
  /\ pc = "average"
  /\ IF Len(times) = 0
       THEN /\ exc' = "ZeroDivisionError"
            /\ pc' = "failed"
            /\ averages' = averages
       ELSE /\ averages' = Append(averages,
                             [num |-> times[Len(times)], den |-> Len(times)])
            /\ pc' = "done"
            /\ exc' = exc
  /\ UNCHANGED <<script, df, i, row, sent, s0, clock, requests, inflight,
                 resp, data, elapsed, times, stdout>>

Average ==
  /\ pc = "average"
  /\ IF Len(times) = 0
       THEN /\ exc' = "ZeroDivisionError"
            /\ pc' = "failed"
            /\ averages' = averages
       ELSE /\ averages' = Append(averages, Mean(times))
            /\ pc' = "done"
            /\ exc' = exc
  /\ UNCHANGED <<script, df, i, row, sent, s0, clock, requests, inflight,
                 resp, data, elapsed, times, stdout>>

\* ---- testing.py ----

ForUkrainian ==
  /\ pc = "for_uk"
  /\ IF i < Len(sentences_ukrainian)
       THEN /\ i' = i + 1
            /\ sent' = sentences_ukrainian[i + 1]
            /\ pc' = "call_post"
       ELSE /\ i' = 0
            /\ sent' = sent
            /\ pc' = "for_en"
  /\ UNCHANGED <<script, df, row, s0, clock, requests, inflight, resp, data,
                 elapsed, times, stdout, averages, exc>>

CallPost ==
  /\ pc = "call_post"
  /\ Send(TranslationRequest(sent, "en", "uk"), "call_wait")
  /\ UNCHANGED <<script, df, i, row, sent, s0, clock, resp, data, elapsed,
                 times, stdout, averages, exc>>

\* print(resp.json()) of call and call_back
PrintJson(next) ==
  /\ IF resp.json
       THEN /\ data' = Body
            /\ stdout' = Append(stdout, [elapsed |-> 0, data |-> Body])
            /\ pc' = next
            /\ exc' = exc
       ELSE /\ UNCHANGED <<data, stdout>>
            /\ pc' = "failed"
            /\ exc' = "JSONDecodeError"
  /\ UNCHANGED <<script, df, i, row, sent, s0, clock, requests, inflight,
                 resp, elapsed, times, averages>>

CallPrint ==
  /\ pc = "call_print"
  /\ PrintJson("for_uk")

ForEnglish ==
  /\ pc = "for_en"
  /\ IF i < Len(sentences_english)
       THEN /\ i' = i + 1
            /\ sent' = sentences_english[i + 1]
            /\ pc' = "cb_post"
       ELSE /\ pc' = "done"
            /\ UNCHANGED <<i, sent>>
  /\ UNCHANGED <<script, df, row, s0, clock, requests, inflight, resp, data,
                 elapsed, times, stdout, averages, exc>>

\* mutant: call_back pasted from call without swapping the codes
CallBackPost_pasted ==
  /\ pc = "cb_post"
  /\ Send(TranslationRequest(sent, "en", "uk"), "cb_wait")
  /\ UNCHANGED <<script, df, i, row, sent, s0, clock, resp, data, elapsed,
                 times, stdout, averages, exc>>

CallBackPost ==
  /\ pc = "cb_post"
  /\ Send(TranslationRequest(sent, "uk", "en"), "cb_wait")
  /\ UNCHANGED <<script, df, i, row, sent, s0, clock, resp, data, elapsed,
                 times, stdout, averages, exc>>

CallBackPrint ==
  /\ pc = "cb_print"
  /\ PrintJson("for_en")

Next ==
  \/ ReadCsv
  \/ HighloadFor
  \/ StartTimer
  \/ HighloadPost
  \/ Respond
  \/ HighloadJson
  \/ Elapsed
  \/ HighloadPrint
  \/ TimesAppend
  \/ Average
  \/ ForUkrainian
  \/ CallPost
  \/ CallPrint
  \/ ForEnglish
  \/ CallBackPost
  \/ CallBackPrint

Spec == Init /\ [][Next]_vars

\* ---- vocabulary of the properties ----

Highload == script = "testing_highload"

Static == script = "testing"

\* read_csv returned a data frame
Loaded == pc # "read_csv" /\ exc # "DataUnavailable"

Terminal == pc \in {"done", "failed"}

\* the endpoint answered the latest request with a non-success status
NonSuccess(r) == ~r.raised /\ r.status \in StatusCodes /\ r.status \notin 200..299

\* the sentences a script is to send, in order
Input == IF Highload THEN df ELSE sentences_ukrainian \o sentences_english

\* the pass a request belongs to: testing.py makes two, one per list
Pass(k) == IF Static /\ k > Len(sentences_ukrainian) THEN 2 ELSE 1

\* the direction a pass is run with: call, call_back, and the highload call
Direction(k) ==
  IF Highload THEN <<"uk", "en">>
  ELSE IF Pass(k) = 1 THEN <<"en", "uk">> ELSE <<"uk", "en">>

Printed == [k \in 1..Len(stdout) |-> stdout[k].elapsed]

\* C1: for an empty dataset the highload run finishes normally with zero
\* measurements and never divides by the number of measurements.
C1_EmptyRunFinishes ==
  (Highload /\ Loaded /\ df = <<>>) =>
    /\ exc # "ZeroDivisionError"
    /\ Terminal => (pc = "done" /\ Len(times) = 0)

\* C2: a response with a non-success status is a request failure: no
\* measurement is recorded for that item and the run goes no further than
\* aborting.
C2_NonSuccessAborts ==
  (Highload /\ NonSuccess(resp)) =>
    /\ Len(times) < i
    /\ Len(stdout) < i
    /\ pc \in {"json", "failed"}

\* C3: when the transport raises on the k-th sentence the run has failed with
\* that error, k requests were issued and k-1 measurements recorded, and
\* nothing is in flight.
C3_FailurePropagation ==
  resp.raised =>
    /\ pc = "failed"
    /\ exc = "ConnectionError"
    /\ inflight = {}
    /\ Len(stdout) = Len(requests) - 1
    /\ Highload => /\ Len(requests) = i
                   /\ i <= Len(df)
                   /\ Len(times) = i - 1

C3_Witness ==
  /\ Highload /\ resp.raised /\ pc = "failed"
  /\ Len(df) = 3 /\ Len(requests) = 2 /\ Len(times) = 1

\* C4: every request of a pass carries the direction of that pass (en->uk for
\* call, uk->en for call_back and for the highload call), so two requests of
\* one pass never differ in direction.
C4_Direction ==
  /\ \A k \in 1..Len(requests) :
       <<requests[k].source_lang, requests[k].target_lang>> = Direction(k)
  /\ \A j, k \in 1..Len(requests) :
       Pass(j) = Pass(k) =>
         /\ requests[j].source_lang = requests[k].source_lang
         /\ requests[j].target_lang = requests[k].target_lang

C4_Witness ==
  /\ Static /\ Len(requests) = 20
  /\ requests[1].source_lang = "en" /\ requests[20].source_lang = "uk"

\* C5: the n-th request carries the n-th sentence of the input; nothing is
\* reordered, skipped or sent twice.
C5_Sequencing ==
  /\ Len(requests) <= Len(Input)
  /\ \A n \in 1..Len(requests) : requests[n].text = Input[n]

C5_Witness ==
  /\ Highload /\ Len(requests) = 3
  /\ df[1] # df[2] /\ df[2] # df[3]

\* C6: a highload run over N >= 1 sentences fails only on a raised or
\* unparseable reply; when it completes it has recorded N measurements, one per
\* sentence in input order, and the summary is over N of them.
C6_CountN ==
  (Highload /\ Loaded /\ Len(df) >= 1) =>
    /\ pc = "failed" => (resp.raised \/ ~resp.json)
    /\ pc = "done" =>
         /\ Len(times) = Len(df)
         /\ Len(stdout) = Len(df)
         /\ \A k \in 1..Len(df) :
              /\ stdout[k].data.translated = df[k]
              /\ times[k] = stdout[k].elapsed
         /\ Len(averages) = 1
         /\ averages[1].den = Len(df)

C6_Witness ==
  /\ Highload /\ pc = "done" /\ Len(df) = 3
  /\ ~resp.raised /\ resp.json /\ resp.status = 200

\* C7: each measured elapsed value is the duration of its round trip, and the
\* reported mean of a completed run is the sum of the N measured values over N.
C7_Mean ==
  /\ (Highload /\ pc \in {"print", "append"}) => elapsed = resp.delay
  /\ (Highload /\ pc = "done") =>
       /\ Len(averages) = 1
       /\ Len(stdout) >= 1
       /\ averages[1].den = Len(stdout)
       /\ averages[1].num = sum(Printed)

C7_Witness ==
  /\ Highload /\ pc = "done" /\ Len(stdout) = 3
  /\ stdout[1].elapsed # stdout[2].elapsed
  /\ averages[1].num = 5 /\ averages[1].den = 3

\* C8: a summary is printed at most once, exactly in the completed state,
\* after every sentence was sent and measured; a failed run has an error and
\* no summary.
C8_SummaryOnce ==
  Highload =>
    /\ Len(averages) <= 1
    /\ Len(averages) = 1 <=> pc = "done"
    /\ pc = "done" =>
         /\ exc = "None"
         /\ inflight = {}
         /\ Len(requests) = Len(df)
         /\ Len(times) = Len(df)
    /\ exc # "None" <=> pc = "failed"
    /\ pc = "failed" => averages = <<>>

C8_Witness ==
  /\ Highload /\ pc = "done" /\ Len(averages) = 1 /\ Len(df) = 2

\* C9: at most one request is in flight, and while item i is being timed and
\* sent every earlier item has been answered, printed and appended.
C9_Sequential ==
  /\ Cardinality(inflight) <= 1
  /\ Highload =>
       /\ inflight \subseteq {i}
       /\ pc \in {"s0", "post", "wait", "json", "elapsed", "print"} =>
            /\ Len(stdout) = i - 1
            /\ Len(times) = i - 1
            /\ Len(requests) \in {i - 1, i}
       /\ pc \in {"s0", "post"} =>
            /\ inflight = {}
            /\ Len(requests) = i - 1
       /\ pc \in {"post", "wait", "json", "elapsed", "print"} =>
            s0 >= sum(times)

C9_Witness ==
  /\ Highload /\ pc = "wait" /\ i = 2 /\ inflight = {2}
  /\ Len(stdout) = 1 /\ Len(times) = 1

\* C10: in testing.py every request has the language of its sentence as
\* source_lang, and the first list is sent entirely before the second.
C10_ListDirection ==
  Static =>
    \A k \in 1..Len(requests) :
      /\ requests[k].source_lang = requests[k].text.lang
      /\ requests[k].text = Input[k]

====
